---- MODULE Spec2Model ----
(***************************************************************************)
(* Model of the nous-bot core: ModuleLoader (src/core/loader.py),          *)
(* ServiceManager (src/services/manager.py), BaseService                   *)
(* (src/services/base.py) and DiscordBot.setup_hook (src/core/client.py).  *)
(***************************************************************************)
EXTENDS Integers, Sequences, FiniteSets, TLC

\* ------------------------------------------------------------------ bounds
MaxUnits == 3

UnitName == <<"a", "b", "c", "d", "e">>
Units == {UnitName[i] : i \in 1..MaxUnits}

\* Dependency names a setup() signature may declare.  "cache" is the key the
\* ServiceManager registers its service under; "redis" is a name that is
\* never registered.
DepNames == {"cache", "redis"}

\* ------------------------------------------------------------------ errors
NoError == [kind |-> "none", names |-> {}]
\* raise ValueError("Circular dependency detected"): the text is a literal,
\* no unit name is interpolated.
CircularError == [kind |-> "ValueError:Circular dependency detected", names |-> {}]
\* raise ValueError(f"Dependency not found: {dep}")
DependencyNotFound(dep) == [kind |-> "ValueError:Dependency not found", names |-> {dep}]
\* whatever a unit's setup() raises
SetupError(u) == [kind |-> "SetupError", names |-> {u}]

ServiceErrorOfBare(e) == e

\* ServiceError(f"Service initialization failed: {str(e)}") from e
ServiceErrorOf(e) == [kind |-> "ServiceError", names |-> e.names]
\* whatever a lifecycle hook (_initialize, _start) of a service raises
HookError(s) == [kind |-> "HookError", names |-> {s}]

\* the one service ServiceManager.initialize creates when it is called
\* without database_base
ServiceNames == {"cache"}

\* the services a manager may hold in _services ("cache", "database" and
\* those of "Initialize other services as needed")
MaxServices == 3

ServiceName == <<"cache", "database", "llm", "redis", "search">>
Services == {ServiceName[i] : i \in 1..MaxServices}

\* raise RuntimeError(f"Service '{self.name}' must be initialized before starting")
NotInitializedError(s) == [kind |-> "RuntimeError", names |-> {s}]
\* whatever the _cleanup hook of a service raises
CleanupError(s) == [kind |-> "CleanupError", names |-> {s}]

VARIABLES
    dependencies,       \* ModuleLoader.dependencies: unit -> set of names
    provides,           \* unit -> names d for which the module has provide_<d>
    loaded_modules,     \* ModuleLoader.loaded_modules
    discovered,         \* discovered_modules is non-empty
    load_order,         \* result of _resolve_load_order (a sequence)
    resolveState,       \* "none" | "ok" | "raised"
    resolveError,       \* the error _resolve_load_order raised
    dependency_groups,  \* result of _group_by_dependency_level
    groupState,         \* "none" | "ok"
    hook,               \* DiscordBot.setup_hook: "idle" | "modules" | "done" | "raised"
    hookError,          \* the error setup_hook raised to its caller
    services,           \* ServiceManager._services, keys in insertion order
    initialized,        \* ServiceManager._initialized
    status,             \* BaseService._status of each service
    last_error,         \* BaseService._last_error of each service
    la,                 \* load_all: "idle" | "running" | "returned" | "raised"
    laError,            \* the error load_all raised
    group,              \* index of the group load_all is awaiting
    gather,             \* outcome of the asyncio.gather future: first error
    task,               \* load_module task of each unit
    injected,           \* the keyword arguments each unit's setup received
    taskError,          \* the error each load_module task raised
    reachedRunning,     \* history: services whose start() set RUNNING
    stopCalls,          \* history: services the manager's teardown invoked stop() on
    firstError,         \* history: the first error raised during boot
    lock,               \* BaseService._lock: "free" or the call holding it
    pc,                 \* position of each concurrent lifecycle call
    op,                 \* the lifecycle method each call runs
    callee,             \* the service each call is made on
    lastCall,           \* the call that returned or raised in the latest step
    start_time,         \* BaseService._start_time is set
    hcTask,             \* BaseService._health_check_task: "none" | "live" | "cancelled"
    lastHealth,         \* what the latest iteration of the live health-check loop saw
    mgr,                \* position of the ServiceManager call in progress
    plan,               \* number of services initialize() is to create
    cursor,             \* index of the service the manager loop is at
    startOrder,         \* history: services in the order they became RUNNING
    stopOrder,          \* history: services in the order stop() was invoked
    mgrError,           \* the error ServiceManager.initialize raised
    closeState,         \* DiscordBot.close: "idle" | "stop_all" | "closed"
    stopAllRaised,      \* stop_all raised into the try block of close()
    clientClosed,       \* number of times super().close() was invoked
    lm,                 \* position and unit of each concurrent load_module call
    setupsDone,         \* history: number of setups of each unit that returned
    fstate,             \* ServiceFactory.create_services: position of the call
    fplan,              \* the names of its services argument, in order
    fcursor,            \* index of the entry (or created service) it is at
    created,            \* its created_services, keys in insertion order
    cleanedUp,          \* history: services its handler invoked cleanup() on
    fError              \* the error create_services raised

loaderVars == <<dependencies, provides, loaded_modules, discovered>>
resolveVars == <<load_order, resolveState, resolveError, groupState>>
serviceVars == <<services, initialized, status, last_error, reachedRunning,
                 stopCalls>>
loadVars == <<la, laError, group, gather, task, injected, taskError,
              dependency_groups>>
hookVars == <<hook, hookError, firstError>>

lifeVars == <<lock, pc, op, callee, lastCall, start_time, hcTask, lastHealth>>
mgrVars == <<mgr, plan, cursor, startOrder, stopOrder, mgrError>>
botVars == <<closeState, stopAllRaised, clientClosed>>
callVars == <<lm, setupsDone>>
factoryVars == <<fstate, fplan, fcursor, created, cleanedUp, fError>>

vars == <<loaderVars, resolveVars, serviceVars, loadVars, hookVars, lifeVars,
          mgrVars, botVars, callVars, factoryVars>>

\* ----------------------------------------------------------- pure helpers
Max(S) == CHOOSE x \in S : \A y \in S : y <= x

Range(s) == {s[i] : i \in 1..Len(s)}

\* all orderings of a finite set, as sequences
RECURSIVE Perms(_)
Perms(S) ==
    IF S = {} THEN {<<>>}
    ELSE UNION {{<<x>> \o p : p \in Perms(S \ {x})} : x \in S}

\* _find_dependency_providers: the modules that have provide_<dependency>
FindDependencyProviders(provs, dependency) ==
    {module_path \in Units : dependency \in provs[module_path]}

\* graph.add_edge(provider, module) for each dep of each module
GraphEdges(deps, provs) ==
    {e \in Units \X Units :
        \E dep \in deps[e[2]] : e[1] \in FindDependencyProviders(provs, dep)}

\* a sort that emits the nodes without looking at their in-degree
KahnOrdersAnyNode(edges, remaining) == Perms(remaining)

\* nx.topological_sort (Kahn): repeatedly emit a node all of whose
\* predecessors were emitted.  The result is the set of orders the
\* iteration order of the node dict may produce; the empty set stands for
\* NetworkXUnfeasible (a cycle leaves nodes that never reach in-degree 0).
RECURSIVE KahnOrders(_, _)
KahnOrders(edges, remaining) ==
    IF remaining = {} THEN {<<>>}
    ELSE LET zero == {n \in remaining :
                        ~ \E m \in remaining : <<m, n>> \in edges}
         IN  UNION {{<<n>> \o s : s \in KahnOrders(edges, remaining \ {n})}
                    : n \in zero}

\* a sort that stops at a cycle without raising NetworkXUnfeasible
TopologicalSortNoRaise(edges, nodes) ==
    IF KahnOrders(edges, nodes) = {} THEN {<<>>} ELSE KahnOrders(edges, nodes)

TopologicalSort(edges, nodes) == KahnOrders(edges, nodes)

\* _resolve_load_order: the set of lists it may return; {} when it raises
\* ValueError("Circular dependency detected").
ResolveLoadOrder(deps, provs) ==
    LET sorted == TopologicalSort(GraphEdges(deps, provs), Units)
    IN  UNION {{ordered \o rest : rest \in Perms(Units \ Range(ordered))}
               : ordered \in sorted}

\* nx.all_simple_paths(graph, source, target), as the lengths (in nodes) of
\* the paths it yields.  With source = target networkx up to 3.1 yields
\* nothing and networkx from 3.2 on yields the one-node path [source];
\* trivial says which.
AllSimplePathLens(edges, source, target, trivial) ==
    IF source = target
    THEN IF trivial THEN {1} ELSE {}
    ELSE {Len(p) : p \in
            {q \in UNION {[1..k -> Units] : k \in 2..Cardinality(Units)} :
                /\ q[1] = source /\ q[Len(q)] = target
                /\ \A i, j \in 1..Len(q) : i # j => q[i] # q[j]
                /\ \A i \in 1..(Len(q) - 1) : <<q[i], q[i + 1]>> \in edges}}

\* level = max(paths) if paths else 0, paths from node to node itself
NodeLevel(edges, node, trivial) ==
    LET paths == AllSimplePathLens(edges, node, node, trivial)
    IN  IF paths # {} THEN Max(paths) ELSE 0

\* [levels[level] for level in sorted(levels.keys())]
RECURSIVE SortedLevels(_, _, _, _)
SortedLevels(edges, nodes, keys, trivial) ==
    IF keys = {} THEN <<>>
    ELSE LET k == CHOOSE x \in keys : \A y \in keys : x <= y
         IN  <<{n \in nodes : NodeLevel(edges, n, trivial) = k}>>
             \o SortedLevels(edges, nodes, keys \ {k}, trivial)

\* a grouping whose graph holds only the units that an edge touches
GroupByDependencyLevelEdgesOnly(order, deps, provs, trivial) ==
    LET edges == GraphEdges(deps, provs)
        nodes == {e[1] : e \in edges} \cup {e[2] : e \in edges}
        keys  == {NodeLevel(edges, n, trivial) : n \in nodes}
    IN  SortedLevels(edges, nodes, keys, trivial)

\* _group_by_dependency_level(load_order)
GroupByDependencyLevel(order, deps, provs, trivial) ==
    LET edges == GraphEdges(deps, provs)
        nodes == Range(order) \cup {e[1] : e \in edges} \cup {e[2] : e \in edges}
        keys  == {NodeLevel(edges, n, trivial) : n \in nodes}
    IN  SortedLevels(edges, nodes, keys, trivial)

\* ------------------------------------------------- resolver specification
\* Discovered configurations.  Module paths are only dictionary keys, so
\* the configurations are enumerated up to a renaming of the units: the
\* units are listed by non-decreasing (dependencies, provides) code.
SetCode(S) == (IF "cache" \in S THEN 1 ELSE 0) + (IF "redis" \in S THEN 2 ELSE 0)

UnitCode(deps, provs, u) == 4 * SetCode(deps[u]) + SetCode(provs[u])

Canonical(deps, provs) ==
    \A i \in 1..(MaxUnits - 1) :
        UnitCode(deps, provs, UnitName[i]) <= UnitCode(deps, provs, UnitName[i + 1])

Configs == [Units -> SUBSET DepNames]

\* the manager before initialize(): no service, nothing started
ServicesIdle ==
    /\ services = <<>>
    /\ initialized = FALSE
    /\ status = [s \in Services |-> "UNINITIALIZED"]
    /\ last_error = [s \in Services |-> NoError]
    /\ reachedRunning = {}
    /\ stopCalls = {}

\* the concurrent callers of lifecycle methods
Callers == {"t1", "t2"}

NoCall == [op |-> "-", service |-> "-", result |-> NoError]

\* BaseService.__init__ of every service; no lifecycle call in progress
LifeIdle ==
    /\ lock = [s \in Services |-> "free"]
    /\ pc = [c \in Callers |-> "idle"]
    /\ op = [c \in Callers |-> "-"]
    /\ callee = [c \in Callers |-> "-"]
    /\ lastCall = NoCall
    /\ start_time = [s \in Services |-> FALSE]
    /\ hcTask = [s \in Services |-> "none"]
    /\ lastHealth = [s \in Services |-> "none"]

\* ServiceManager.__init__; no manager call in progress
MgrIdle ==
    /\ mgr = "idle"
    /\ plan = 0
    /\ cursor = 0
    /\ startOrder = <<>>
    /\ stopOrder = <<>>
    /\ mgrError = NoError

\* the bot before close(): the client was never closed
BotIdle ==
    /\ closeState = "idle"
    /\ stopAllRaised = FALSE
    /\ clientClosed = 0

NotInjected == [src |-> "absent", of |-> "-"]

\* deps of a load_module call that has not collected anything
NoDeps == [d \in DepNames |-> NotInjected]

NoLoad == [pc |-> "idle", unit |-> "-", deps |-> NoDeps]

\* no load_module call outside load_all is in progress
CallIdle ==
    /\ lm = [c \in Callers |-> NoLoad]
    /\ setupsDone = [u \in Units |-> 0]

\* no create_services call was made
FactoryIdle ==
    /\ fstate = "idle"
    /\ fplan = <<>>
    /\ fcursor = 0
    /\ created = <<>>
    /\ cleanedUp = {}
    /\ fError = NoError

\* no load_all in progress
LoadIdle ==
    /\ la = "idle"
    /\ laError = NoError
    /\ group = 0
    /\ gather = NoError
    /\ task = [u \in Units |-> "none"]
    /\ injected = [u \in Units |-> [d \in DepNames |-> NotInjected]]
    /\ taskError = [u \in Units |-> NoError]
    /\ dependency_groups = <<>>

HookIdle ==
    /\ hook = "idle"
    /\ hookError = NoError
    /\ firstError = NoError

InitResolve ==
    /\ dependencies \in Configs
    /\ provides \in Configs
    /\ Canonical(dependencies, provides)
    /\ loaded_modules = {}
    /\ discovered = TRUE
    /\ load_order = <<>>
    /\ resolveState = "none"
    /\ resolveError = NoError
    /\ groupState = "none"
    /\ ServicesIdle
    /\ LoadIdle
    /\ HookIdle
    /\ LifeIdle
    /\ MgrIdle
    /\ BotIdle
    /\ CallIdle
    /\ FactoryIdle

\* a call of _resolve_load_order()
ResolveCall ==
    /\ resolveState = "none"
    /\ LET orders == ResolveLoadOrder(dependencies, provides)
       IN  IF orders = {}
           THEN /\ resolveState' = "raised"
                /\ resolveError' = CircularError
                /\ load_order' = load_order
           ELSE /\ resolveState' = "ok"
                /\ resolveError' = resolveError
                /\ load_order' \in orders
    /\ UNCHANGED <<loaderVars, groupState, serviceVars, loadVars, hookVars>>
    /\ UNCHANGED <<lifeVars, mgrVars>>
    /\ UNCHANGED <<botVars, callVars, factoryVars>>

\* a call of _group_by_dependency_level(load_order) on a resolved order
GroupCall ==
    /\ resolveState = "ok"
    /\ groupState = "none"
    /\ \E trivial \in BOOLEAN :
          dependency_groups' =
              GroupByDependencyLevel(load_order, dependencies, provides, trivial)
    /\ groupState' = "ok"
    /\ UNCHANGED <<loaderVars, load_order, resolveState, resolveError,
                   serviceVars, hookVars, la, laError, group, gather, task,
                   injected, taskError>>
    /\ UNCHANGED <<lifeVars, mgrVars>>
    /\ UNCHANGED <<botVars, callVars, factoryVars>>

NextResolve == ResolveCall \/ GroupCall

SpecResolve == InitResolve /\ [][NextResolve]_vars

\* ---------------------------------------------------------- service side
\* BaseService.initialize: a no-op unless UNINITIALIZED; else INITIALIZED, or
\* ERROR when the _initialize hook raises
AfterInitialize(st, ok) ==
    IF st # "UNINITIALIZED" THEN st
    ELSE IF ok THEN "INITIALIZED" ELSE "ERROR"

\* BaseService.start on an INITIALIZED service: RUNNING, or ERROR when the
\* _start hook raises
AfterStart(st, ok) ==
    IF st # "INITIALIZED" THEN st
    ELSE IF ok THEN "RUNNING" ELSE "ERROR"

\* get_services(): the process-wide ServiceManager; its service table
GetServices == services

\* ServiceManager.get_service: self._services.get(name).  dict.get never
\* raises: an unknown name gives None.
GetService(name) ==
    IF name \in Range(GetServices)
    THEN [raised |-> FALSE, value |-> [src |-> "service", of |-> name]]
    ELSE [raised |-> FALSE, value |-> [src |-> "None", of |-> "-"]]

\* ServiceManager.initialize(): create (and initialize) the cache service,
\* start every service; on any failure cleanup() and raise ServiceError.
ManagerInitialize(initOk, startOk) ==
    /\ ~ initialized
    /\ LET st1 == AfterInitialize(status["cache"], initOk)
           st2 == AfterStart(st1, startOk)
       IN  IF st1 = "ERROR"
           THEN \* the creator raised: nothing was put into _services
                /\ status' = [status EXCEPT !["cache"] = st1]
                /\ last_error' = [last_error EXCEPT !["cache"] = HookError("cache")]
                /\ services' = <<>>
                /\ initialized' = FALSE
                /\ UNCHANGED <<reachedRunning, stopCalls>>
                /\ hook' = "raised"
                /\ hookError' = ServiceErrorOf(HookError("cache"))
                /\ firstError' = HookError("cache")
           ELSE IF st2 = "ERROR"
           THEN \* start() raised: cleanup() runs service.cleanup(), which
                \* calls stop() (a no-op, the service is not RUNNING)
                /\ status' = [status EXCEPT !["cache"] = st2]
                /\ last_error' = [last_error EXCEPT !["cache"] = HookError("cache")]
                /\ services' = <<>>
                /\ initialized' = FALSE
                /\ stopCalls' = stopCalls \cup {"cache"}
                /\ UNCHANGED reachedRunning
                /\ hook' = "raised"
                /\ hookError' = ServiceErrorOf(HookError("cache"))
                /\ firstError' = HookError("cache")
           ELSE /\ status' = [status EXCEPT !["cache"] = st2]
                /\ services' = <<"cache">>
                /\ initialized' = TRUE
                /\ reachedRunning' = reachedRunning \cup {"cache"}
                /\ UNCHANGED <<last_error, stopCalls>>
                /\ hook' = "modules"
                /\ UNCHANGED <<hookError, firstError>>

\* ServiceManager.initialize_services(): the boot entry point of the
\* manager, which brings every service to RUNNING; it is initialize()
InitializeServicesCall(initOk, startOk) == ManagerInitialize(initOk, startOk)

\* setup_hook, first half: await service_manager.initialize_services()
InitializeServices ==
    /\ hook = "idle"
    /\ \E initOk, startOk \in BOOLEAN : InitializeServicesCall(initOk, startOk)
    \* start() of a service that reached RUNNING recorded its start time and
    \* created its health-check task
    /\ start_time' = [s \in Services |-> start_time[s] \/ status'[s] = "RUNNING"]
    /\ hcTask' = [s \in Services |->
                     IF status'[s] = "RUNNING" THEN "live" ELSE hcTask[s]]
    /\ UNCHANGED <<lock, pc, op, callee, lastCall, lastHealth>>
    /\ UNCHANGED <<loaderVars, resolveVars, loadVars, mgrVars>>
    /\ UNCHANGED <<botVars, callVars, factoryVars>>

\* ------------------------------------------------------------ loader side
\* tasks = [self.load_module(m, bot) for m in group]: one task per member
TasksFor(groups, g) ==
    [u \in Units |->
        IF g <= Len(groups) /\ u \in groups[g] THEN "pending" ELSE task[u]]

\* load_all up to its first await: discover, resolve, group, launch group 1
LoadAllBegin ==
    /\ hook = "modules"
    /\ la = "idle"
    /\ \E deps \in Configs, provs \in Configs :
          /\ IF discovered
             THEN deps = dependencies /\ provs = provides
             ELSE Canonical(deps, provs)
          /\ dependencies' = deps
          /\ provides' = provs
          /\ discovered' = TRUE
          /\ LET orders == ResolveLoadOrder(deps, provs)
             IN  IF orders = {}
                 THEN /\ la' = "raised"
                      /\ laError' = CircularError
                      /\ firstError' = CircularError
                      /\ UNCHANGED <<group, task, dependency_groups>>
                 ELSE \E order \in orders, trivial \in BOOLEAN :
                        LET groups == GroupByDependencyLevel(order, deps, provs, trivial)
                        IN  /\ dependency_groups' = groups
                            /\ group' = 1
                            /\ task' = TasksFor(groups, 1)
                            /\ la' = IF groups = <<>> THEN "returned" ELSE "running"
                            /\ UNCHANGED <<laError, firstError>>
    /\ UNCHANGED <<loaded_modules, resolveVars, serviceVars, gather, injected,
                   taskError, hook, hookError>>
    /\ UNCHANGED <<lifeVars, mgrVars>>
    /\ UNCHANGED <<botVars, callVars, factoryVars>>

\* what load_module puts into deps[dep] for unit u when the iteration of
\* the provider set yields sibling first: the sibling's provide_<dep>() if
\* there is a provider, else get_services().get_service(dep), where a
\* KeyError becomes ValueError("Dependency not found")
Resolved(u, dep, first) ==
    IF dep \notin dependencies[u] THEN NotInjected
    ELSE IF FindDependencyProviders(provides, dep) # {}
    THEN [src |-> "unit", of |-> first]
    ELSE IF GetService(dep).raised
    THEN [src |-> "KeyError", of |-> dep]
    ELSE GetService(dep).value

\* the keyword arguments load_module may collect for unit u, one for each
\* way next(iter(providers)) may choose among several providers
Collected(u) ==
    {[dep \in DepNames |-> Resolved(u, dep, pick[dep])] :
        pick \in {q \in [DepNames -> Units] :
                    \A dep \in DepNames :
                        LET providers == FindDependencyProviders(provides, dep)
                        IN  IF dep \in dependencies[u] /\ providers # {}
                            THEN q[dep] \in providers
                            ELSE q[dep] = UnitName[1]}}

\* first step of a load_module task: return when already loaded, collect the
\* dependencies, invoke setup (which then runs to its first suspension)
StartTask(u) ==
    /\ la = "running"
    /\ task[u] = "pending"
    /\ IF u \in loaded_modules
       THEN /\ task' = [task EXCEPT ![u] = "done"]
            /\ UNCHANGED <<injected, taskError, gather, firstError>>
       ELSE \E f \in Collected(u) :
              IF \E dep \in DepNames : f[dep].src = "KeyError"
              THEN LET dep == CHOOSE d \in DepNames : f[d].src = "KeyError"
                   IN  /\ task' = [task EXCEPT ![u] = "failed"]
                       /\ taskError' = [taskError EXCEPT ![u] = DependencyNotFound(dep)]
                       /\ gather' = IF gather = NoError
                                    THEN DependencyNotFound(dep) ELSE gather
                       /\ firstError' = IF firstError = NoError
                                        THEN DependencyNotFound(dep) ELSE firstError
                       /\ UNCHANGED injected
              ELSE /\ task' = [task EXCEPT ![u] = "setup"]
                   /\ injected' = [injected EXCEPT ![u] = f]
                   /\ UNCHANGED <<taskError, gather, firstError>>
    /\ UNCHANGED <<loaderVars, resolveVars, serviceVars, la, laError, group,
                   dependency_groups, hook, hookError>>
    /\ UNCHANGED <<lifeVars, mgrVars>>
    /\ UNCHANGED <<botVars, callVars, factoryVars>>

\* await setup(**deps) returns: loaded_modules.add(module_path)
SetupReturn(u) ==
    /\ task[u] = "setup"
    /\ task' = [task EXCEPT ![u] = "done"]
    /\ loaded_modules' = loaded_modules \cup {u}
    /\ setupsDone' = [setupsDone EXCEPT ![u] = @ + 1]
    /\ UNCHANGED <<dependencies, provides, discovered, resolveVars, serviceVars,
                   la, laError, group, gather, injected, taskError,
                   dependency_groups, hookVars>>
    /\ UNCHANGED <<lifeVars, mgrVars>>
    /\ UNCHANGED <<botVars, lm, factoryVars>>

\* await setup(**deps) raises: logged and re-raised out of the task; gather
\* takes the first exception of its children as its own outcome
SetupRaise(u) ==
    /\ task[u] = "setup"
    /\ task' = [task EXCEPT ![u] = "failed"]
    /\ taskError' = [taskError EXCEPT ![u] = SetupError(u)]
    /\ gather' = IF gather = NoError THEN SetupError(u) ELSE gather
    /\ firstError' = IF firstError = NoError THEN SetupError(u) ELSE firstError
    /\ UNCHANGED <<loaderVars, resolveVars, serviceVars, la, laError, group,
                   injected, dependency_groups, hook, hookError>>
    /\ UNCHANGED <<lifeVars, mgrVars>>
    /\ UNCHANGED <<botVars, callVars, factoryVars>>

\* the members of the group load_all is awaiting
Current == IF group \in 1..Len(dependency_groups) THEN dependency_groups[group] ELSE {}

\* a join that resumes as soon as one child has returned
GatherDoneFirstCompleted ==
    /\ \A u \in Current : task[u] # "pending"
    /\ \/ gather # NoError
       \/ \E u \in Current : task[u] = "done"

\* gather is done: every child returned, or one child raised (the first step
\* of every child has run by then)
GatherDone ==
    /\ \A u \in Current : task[u] # "pending"
    /\ \/ gather # NoError
       \/ \A u \in Current : task[u] = "done"

\* a join that collects the exceptions of its children instead of raising
LoadAllResumeAbsorb ==
    /\ la = "running"
    /\ \A u \in Current : task[u] \in {"done", "failed"}
    /\ group' = group + 1
    /\ task' = TasksFor(dependency_groups, group + 1)
    /\ la' = IF group + 1 > Len(dependency_groups) THEN "returned" ELSE "running"
    /\ UNCHANGED <<loaderVars, resolveVars, serviceVars, laError, gather,
                   injected, taskError, dependency_groups, hookVars>>
    /\ UNCHANGED <<lifeVars, mgrVars>>
    /\ UNCHANGED <<botVars, callVars, factoryVars>>

\* a join that cancels the children still in flight when one child raised
LoadAllResumeCancel ==
    /\ la = "running"
    /\ GatherDone
    /\ IF gather # NoError
       THEN /\ la' = "raised"
            /\ laError' = gather
            /\ task' = [u \in Units |->
                          IF task[u] = "setup" THEN "cancelled" ELSE task[u]]
            /\ UNCHANGED group
       ELSE /\ group' = group + 1
            /\ task' = TasksFor(dependency_groups, group + 1)
            /\ la' = IF group + 1 > Len(dependency_groups) THEN "returned" ELSE "running"
            /\ UNCHANGED laError
    /\ UNCHANGED <<loaderVars, resolveVars, serviceVars, gather, injected,
                   taskError, dependency_groups, hookVars>>
    /\ UNCHANGED <<lifeVars, mgrVars>>
    /\ UNCHANGED <<botVars, callVars, factoryVars>>

\* load_all resumes from await asyncio.gather(*tasks): the exception
\* propagates, or the loop goes on to the next group
LoadAllResume ==
    /\ la = "running"
    /\ GatherDone
    /\ IF gather # NoError
       THEN /\ la' = "raised"
            /\ laError' = gather
            /\ UNCHANGED <<group, task>>
       ELSE /\ group' = group + 1
            /\ task' = TasksFor(dependency_groups, group + 1)
            /\ la' = IF group + 1 > Len(dependency_groups) THEN "returned" ELSE "running"
            /\ UNCHANGED laError
    /\ UNCHANGED <<loaderVars, resolveVars, serviceVars, gather, injected,
                   taskError, dependency_groups, hookVars>>
    /\ UNCHANGED <<lifeVars, mgrVars>>
    /\ UNCHANGED <<botVars, callVars, factoryVars>>

\* setup_hook, second half: load_all returned, or except: log and raise
SetupHookFinish ==
    /\ hook = "modules"
    /\ la \in {"returned", "raised"}
    /\ IF la = "returned"
       THEN hook' = "done" /\ UNCHANGED hookError
       ELSE hook' = "raised" /\ hookError' = laError
    /\ UNCHANGED <<loaderVars, resolveVars, serviceVars, loadVars, firstError>>
    /\ UNCHANGED <<lifeVars, mgrVars>>
    /\ UNCHANGED <<botVars, callVars, factoryVars>>

Init ==
    /\ dependencies = [u \in Units |-> {}]
    /\ provides = [u \in Units |-> {}]
    /\ loaded_modules = {}
    /\ discovered = FALSE
    /\ load_order = <<>>
    /\ resolveState = "none"
    /\ resolveError = NoError
    /\ groupState = "none"
    /\ ServicesIdle
    /\ LoadIdle
    /\ HookIdle
    /\ LifeIdle
    /\ MgrIdle
    /\ BotIdle
    /\ CallIdle
    /\ FactoryIdle

Next ==
    \/ InitializeServices
    \/ LoadAllBegin
    \/ \E u \in Units : StartTask(u)
    \/ \E u \in Units : SetupReturn(u)
    \/ \E u \in Units : SetupRaise(u)
    \/ LoadAllResume
    \/ SetupHookFinish

Spec == Init /\ [][Next]_vars

\* ------------------------------------------------- BaseService lifecycle
InitializeGuardNotBusy(st) == st \notin {"INITIALIZING", "STARTING", "STOPPING"}

\* if self._status != ServiceStatus.UNINITIALIZED: return
InitializeGuard(st) == st = "UNINITIALIZED"

StartGuardAny(st) == TRUE

StartGuardRestart(st) == st \in {"INITIALIZED", "STOPPED"}

\* if self._status != ServiceStatus.INITIALIZED: raise RuntimeError(...)
StartGuard(st) == st = "INITIALIZED"

StopGuardNotStopped(st) == st # "STOPPED"

\* if self._status != ServiceStatus.RUNNING: return
StopGuard(st) == st = "RUNNING"

\* the status a lifecycle method sets before it awaits its hook
Intermediate(o) ==
    CASE o = "initialize" -> "INITIALIZING"
      [] o = "start" -> "STARTING"
      [] OTHER -> "STOPPING"

HookStatusRetry(o, ok) ==
    IF ok THEN CASE o = "initialize" -> "INITIALIZED"
                 [] o = "start" -> "RUNNING"
                 [] OTHER -> "STOPPED"
    ELSE CASE o = "initialize" -> "UNINITIALIZED"
           [] o = "start" -> "INITIALIZED"
           [] OTHER -> "RUNNING"

\* the status a lifecycle method sets after its hook returned or raised
HookStatus(o, ok) ==
    IF ~ ok THEN "ERROR"
    ELSE CASE o = "initialize" -> "INITIALIZED"
           [] o = "start" -> "RUNNING"
           [] OTHER -> "STOPPED"

HookResultSwallowed(s, ok) == NoError

\* what a lifecycle method raises after its hook: "except Exception as e:
\* ...; raise" re-raises the hook's own error; nothing when it returned
HookResult(s, ok) == IF ok THEN NoError ELSE HookError(s)

StopHealthCheckKeep(t) == t

\* _stop_health_check: if self._health_check_task: task.cancel()
StopHealthCheck(t) == IF t = "none" THEN "none" ELSE "cancelled"

LoopAfterUncaught(ok) == IF ok THEN "live" ELSE "ended"

\* health_check_loop after one iteration: "except Exception" logs the error
\* and the while loop goes on, so the task stays alive either way
LoopAfter(ok) == "live"

\* whatever the _health_check hook of a service raises
HealthError(s) == [kind |-> "HealthError", names |-> {s}]

\* the services the concurrent callers work on
Targets == {ServiceName[1], ServiceName[2]}

LifeOps == {"initialize", "start", "stop", "cleanup"}

\* a caller begins a lifecycle method of service s; it is at "async with
\* self._lock" (cleanup begins with its call of stop)
Invoke(c, s, o) ==
    /\ pc[c] = "idle"
    /\ pc' = [pc EXCEPT ![c] = "waiting"]
    /\ op' = [op EXCEPT ![c] = o]
    /\ callee' = [callee EXCEPT ![c] = s]
    /\ lastCall' = NoCall
    /\ UNCHANGED <<lock, start_time, hcTask, lastHealth>>
    /\ UNCHANGED <<loaderVars, resolveVars, serviceVars, loadVars, hookVars, mgrVars>>
    /\ UNCHANGED <<botVars, callVars, factoryVars>>

\* the call of caller c returns or raises: result is the error, if any;
\* lastCall shows it until the next step of any call or loop
CallEnds(c, result) ==
    /\ pc' = [pc EXCEPT ![c] = "idle"]
    /\ lastCall' = [op |-> op[c], service |-> callee[c], result |-> result]
    /\ op' = [op EXCEPT ![c] = "-"]
    /\ callee' = [callee EXCEPT ![c] = "-"]

LockFreeAlways(l) == TRUE

\* asyncio.Lock.acquire returns without waiting only when the lock is not
\* held; self._lock is the service's own lock
LockFree(l) == l = "free"

\* the call takes the lock and runs up to its first await: the guard makes
\* it return (initialize, stop) or raise (start), or the method sets the
\* intermediate status and awaits its hook with the lock held; stop cancels
\* the health-check task before it awaits _stop
Acquire(c) ==
    /\ pc[c] = "waiting"
    /\ LockFree(lock[callee[c]])
    /\ LET s == callee[c]
           o == op[c]
           st == status[s]
           guard == CASE o = "initialize" -> InitializeGuard(st)
                      [] o = "start" -> StartGuard(st)
                      [] OTHER -> StopGuard(st)
       IN  /\ IF guard
              THEN /\ status' = [status EXCEPT ![s] = Intermediate(o)]
                   /\ lock' = [lock EXCEPT ![s] = c]
                   /\ pc' = [pc EXCEPT ![c] = "hook"]
                   /\ hcTask' = IF o \in {"stop", "cleanup"}
                                THEN [hcTask EXCEPT ![s] = StopHealthCheck(hcTask[s])]
                                ELSE hcTask
                   /\ lastHealth' = IF o \in {"stop", "cleanup"}
                                    THEN [lastHealth EXCEPT ![s] = "none"]
                                    ELSE lastHealth
                   /\ lastCall' = NoCall
                   /\ UNCHANGED <<op, callee>>
              ELSE /\ UNCHANGED <<status, lock, hcTask, lastHealth>>
                   /\ IF o = "cleanup"
                      THEN /\ pc' = [pc EXCEPT ![c] = "cleanup"]
                           /\ lastCall' = NoCall
                           /\ UNCHANGED <<op, callee>>
                      ELSE CallEnds(c, IF o = "start"
                                       THEN NotInitializedError(s) ELSE NoError)
    /\ UNCHANGED <<last_error, start_time, services, initialized,
                   reachedRunning, stopCalls>>
    /\ UNCHANGED <<loaderVars, resolveVars, loadVars, hookVars, mgrVars>>
    /\ UNCHANGED <<botVars, callVars, factoryVars>>

\* the awaited hook (_initialize, _start, _stop) returns or raises: the final
\* status is set, an error is stored and re-raised, the lock is released;
\* start records the start time and creates the health-check task; cleanup
\* goes on to its _cleanup hook when its stop returned
HookDone(c, ok) ==
    /\ pc[c] = "hook"
    /\ LET s == callee[c]
           o == op[c]
       IN  /\ status' = [status EXCEPT ![s] = HookStatus(o, ok)]
           /\ last_error' = IF ok THEN last_error
                            ELSE [last_error EXCEPT ![s] = HookError(s)]
           /\ lock' = [lock EXCEPT ![s] = "free"]
           /\ start_time' = IF ~ ok THEN start_time
                            ELSE IF o = "start" THEN [start_time EXCEPT ![s] = TRUE]
                            ELSE IF o \in {"stop", "cleanup"}
                            THEN [start_time EXCEPT ![s] = FALSE]
                            ELSE start_time
           /\ hcTask' = IF ok /\ o = "start"
                        THEN [hcTask EXCEPT ![s] = "live"] ELSE hcTask
           /\ reachedRunning' = IF ok /\ o = "start"
                                THEN reachedRunning \cup {s} ELSE reachedRunning
           /\ IF ok /\ o = "cleanup"
              THEN /\ pc' = [pc EXCEPT ![c] = "cleanup"]
                   /\ lastCall' = NoCall
                   /\ UNCHANGED <<op, callee>>
              ELSE CallEnds(c, HookResult(s, ok))
    /\ UNCHANGED <<lastHealth, services, initialized, stopCalls>>
    /\ UNCHANGED <<loaderVars, resolveVars, loadVars, hookVars, mgrVars>>
    /\ UNCHANGED <<botVars, callVars, factoryVars>>

\* BaseService.cleanup after its stop(): await self._cleanup() returns, or
\* raises and the error is logged and re-raised
CleanupDone(c, ok) ==
    /\ pc[c] = "cleanup"
    /\ CallEnds(c, IF ok THEN NoError ELSE CleanupError(callee[c]))
    /\ UNCHANGED <<lock, start_time, hcTask, lastHealth>>
    /\ UNCHANGED <<loaderVars, resolveVars, serviceVars, loadVars, hookVars, mgrVars>>
    /\ UNCHANGED <<botVars, callVars, factoryVars>>

\* the status after the task of a call was cancelled at "await self._hook()":
\* CancelledError is a BaseException, "except Exception" lets it through and
\* nothing is assigned, so the intermediate status stays
CancelStatus(st) == st

\* asyncio.CancelledError, raised into a call whose task was cancelled
Cancelled == [kind |-> "CancelledError", names |-> {}]

\* the task of caller c is cancelled while it is suspended: waiting for the
\* lock, awaiting the hook inside "async with self._lock" (the lock is
\* released on the way out), or awaiting _cleanup
Cancel(c) ==
    /\ pc[c] \in {"waiting", "hook", "cleanup"}
    /\ LET s == callee[c]
       IN  IF pc[c] = "hook"
           THEN /\ status' = [status EXCEPT ![s] = CancelStatus(status[s])]
                /\ lock' = [lock EXCEPT ![s] = "free"]
           ELSE UNCHANGED <<status, lock>>
    /\ CallEnds(c, Cancelled)
    /\ UNCHANGED <<start_time, hcTask, lastHealth>>
    /\ UNCHANGED <<services, initialized, last_error, reachedRunning, stopCalls>>
    /\ UNCHANGED <<loaderVars, resolveVars, loadVars, hookVars, mgrVars>>
    /\ UNCHANGED <<botVars, callVars, factoryVars>>

\* one iteration of health_check_loop: await self.health_check() returns, or
\* raises and the error is logged; the loop goes on
HealthCheckLoop(s, ok) ==
    /\ hcTask[s] = "live"
    /\ lastHealth' = [lastHealth EXCEPT ![s] = IF ok THEN "ok" ELSE "failed"]
    /\ hcTask' = [hcTask EXCEPT ![s] = LoopAfter(ok)]
    /\ lastCall' = NoCall
    /\ UNCHANGED <<lock, pc, op, callee, start_time>>
    /\ UNCHANGED <<loaderVars, resolveVars, serviceVars, loadVars, hookVars, mgrVars>>
    /\ UNCHANGED <<botVars, callVars, factoryVars>>

\* a call of the public health_check(): it takes no lock and changes nothing;
\* it returns the mapping, or raises what _health_check raised
HealthCheckCall(s, ok) ==
    /\ lastCall' = [op |-> "health_check", service |-> s,
                    result |-> IF ok THEN NoError ELSE HealthError(s)]
    /\ UNCHANGED <<lock, pc, op, callee, start_time, hcTask, lastHealth>>
    /\ UNCHANGED <<loaderVars, resolveVars, serviceVars, loadVars, hookVars, mgrVars>>
    /\ UNCHANGED <<botVars, callVars, factoryVars>>

NextService ==
    \/ \E c \in Callers, s \in Targets, o \in LifeOps : Invoke(c, s, o)
    \/ \E c \in Callers : Acquire(c)
    \/ \E c \in Callers, ok \in BOOLEAN : HookDone(c, ok)
    \/ \E c \in Callers, ok \in BOOLEAN : CleanupDone(c, ok)
    \/ \E c \in Callers : Cancel(c)
    \/ \E s \in Targets, ok \in BOOLEAN : HealthCheckLoop(s, ok)
    \/ \E s \in Targets, ok \in BOOLEAN : HealthCheckCall(s, ok)

SpecService == Init /\ [][NextService]_vars

\* ------------------------------------------------ ServiceManager teardown
\* BaseService.stop as one call: a no-op unless RUNNING, else STOPPED, or
\* ERROR when the _stop hook raises
AfterStop(st, ok) == IF StopGuard(st) THEN HookStatus("stop", ok) ELSE st

Reversed(order) == [i \in 1..Len(order) |-> order[Len(order) + 1 - i]]

CleanupOrderForward(table) == table

\* for name, service in reversed(list(self._services.items()))
CleanupOrder(table) == Reversed(table)

NextAfterRaiseAbort(k, raised, n) == IF raised THEN n + 1 ELSE k + 1

\* the position cleanup() goes on with after service.cleanup() of position k
\* of n: "except Exception" logs the error and the for loop continues
NextAfterRaise(k, raised, n) == k + 1

\* cleanup() is at position k of its loop over n services; after the last
\* one it clears the table and resets _initialized in the same step, and
\* initialize(), when it called cleanup() from its handler, raises
CleanupAt(k, n, table) ==
    IF k <= n
    THEN /\ mgr' = "cleanup"
         /\ cursor' = k
         /\ services' = table
         /\ UNCHANGED initialized
    ELSE /\ mgr' = IF mgrError' = NoError THEN "cleaned" ELSE "raised"
         /\ cursor' = 0
         /\ services' = <<>>
         /\ initialized' = FALSE

\* ServiceManager.initialize() begins: plan is the number of services this
\* build creates ("Initialize other services as needed")
MgrInitialize(n) ==
    /\ mgr = "idle"
    /\ ~ initialized
    /\ services = <<>>
    /\ plan' = n
    /\ mgr' = "creating"
    /\ cursor' = 1
    /\ UNCHANGED <<startOrder, stopOrder, mgrError>>
    /\ UNCHANGED <<loaderVars, resolveVars, serviceVars, loadVars, hookVars, lifeVars>>
    /\ UNCHANGED <<botVars, callVars, factoryVars>>

\* self._services[name] = await ServiceFactory.create_service(name): the
\* creator constructs and initializes the service; if that raises nothing is
\* stored and the handler of initialize() runs cleanup()
MgrCreate(ok) ==
    /\ mgr = "creating"
    /\ LET s == ServiceName[cursor]
       IN  /\ status' = [status EXCEPT ![s] = AfterInitialize(status[s], ok)]
           /\ last_error' = IF ok THEN last_error
                            ELSE [last_error EXCEPT ![s] = HookError(s)]
           /\ mgrError' = IF ok THEN mgrError ELSE ServiceErrorOf(HookError(s))
           /\ IF ok
              THEN /\ services' = Append(services, s)
                   /\ mgr' = IF cursor = plan THEN "starting" ELSE "creating"
                   /\ cursor' = IF cursor = plan THEN 1 ELSE cursor + 1
                   /\ UNCHANGED initialized
              ELSE CleanupAt(1, Len(services), services)
    /\ UNCHANGED <<plan, startOrder, stopOrder, reachedRunning, stopCalls>>
    /\ UNCHANGED <<loaderVars, resolveVars, loadVars, hookVars, lifeVars>>
    /\ UNCHANGED <<botVars, callVars, factoryVars>>

\* for service in self._services.values(): await service.start(); after the
\* last one _initialized = True; if a start raises the handler runs cleanup()
MgrStart(ok) ==
    /\ mgr = "starting"
    /\ LET s == services[cursor]
       IN  /\ status' = [status EXCEPT ![s] = AfterStart(status[s], ok)]
           /\ last_error' = IF ok THEN last_error
                            ELSE [last_error EXCEPT ![s] = HookError(s)]
           /\ mgrError' = IF ok THEN mgrError ELSE ServiceErrorOf(HookError(s))
           /\ start_time' = IF ok THEN [start_time EXCEPT ![s] = TRUE] ELSE start_time
           /\ hcTask' = IF ok THEN [hcTask EXCEPT ![s] = "live"] ELSE hcTask
           /\ startOrder' = IF ok THEN Append(startOrder, s) ELSE startOrder
           /\ reachedRunning' = IF ok THEN reachedRunning \cup {s} ELSE reachedRunning
           /\ IF ok
              THEN /\ mgr' = IF cursor = Len(services) THEN "ready" ELSE "starting"
                   /\ cursor' = IF cursor = Len(services) THEN 0 ELSE cursor + 1
                   /\ initialized' = (cursor = Len(services))
                   /\ UNCHANGED services
              ELSE CleanupAt(1, Len(services), services)
    /\ UNCHANGED <<plan, stopOrder, stopCalls>>
    /\ UNCHANGED <<lock, pc, op, callee, lastCall, lastHealth>>
    /\ UNCHANGED <<loaderVars, resolveVars, loadVars, hookVars>>
    /\ UNCHANGED <<botVars, callVars, factoryVars>>

\* ServiceManager.cleanup() is called on an initialized manager (shutdown)
MgrCleanup ==
    /\ mgr = "ready"
    /\ UNCHANGED mgrError
    /\ CleanupAt(1, Len(services), services)
    /\ UNCHANGED <<plan, startOrder, stopOrder>>
    /\ UNCHANGED <<status, last_error, reachedRunning, stopCalls>>
    /\ UNCHANGED <<loaderVars, resolveVars, loadVars, hookVars, lifeVars>>
    /\ UNCHANGED <<botVars, callVars, factoryVars>>

\* one iteration of cleanup() begins: service.cleanup() calls stop(), which
\* returns at once unless the service is RUNNING, else sets STOPPING, cancels
\* the health-check task and awaits the _stop hook
MgrStopCall ==
    /\ mgr = "cleanup"
    /\ LET s == CleanupOrder(services)[cursor]
           running == StopGuard(status[s])
       IN  /\ stopOrder' = Append(stopOrder, s)
           /\ stopCalls' = stopCalls \cup {s}
           /\ status' = IF running
                        THEN [status EXCEPT ![s] = Intermediate("stop")] ELSE status
           /\ hcTask' = IF running
                        THEN [hcTask EXCEPT ![s] = StopHealthCheck(hcTask[s])]
                        ELSE hcTask
           /\ lastHealth' = IF running
                            THEN [lastHealth EXCEPT ![s] = "none"] ELSE lastHealth
           /\ mgr' = IF running THEN "stopping" ELSE "cleaning"
    /\ UNCHANGED <<plan, cursor, startOrder, mgrError>>
    /\ UNCHANGED <<services, initialized, last_error, reachedRunning>>
    /\ UNCHANGED <<lock, pc, op, callee, lastCall, start_time>>
    /\ UNCHANGED <<loaderVars, resolveVars, loadVars, hookVars>>
    /\ UNCHANGED <<botVars, callVars, factoryVars>>

\* the _stop hook returns (STOPPED, on to _cleanup) or raises: ERROR, the
\* error is re-raised by stop() and by service.cleanup(), and cleanup()
\* logs it and goes on with the next service
MgrStopDone(ok) ==
    /\ mgr = "stopping"
    /\ LET s == CleanupOrder(services)[cursor]
       IN  /\ status' = [status EXCEPT ![s] = HookStatus("stop", ok)]
           /\ last_error' = IF ok THEN last_error
                            ELSE [last_error EXCEPT ![s] = HookError(s)]
           /\ start_time' = IF ok THEN [start_time EXCEPT ![s] = FALSE]
                            ELSE start_time
           /\ UNCHANGED mgrError
           /\ IF ok
              THEN /\ mgr' = "cleaning"
                   /\ UNCHANGED <<cursor, services, initialized>>
              ELSE CleanupAt(NextAfterRaise(cursor, TRUE, Len(services)),
                             Len(services), services)
    /\ UNCHANGED <<plan, startOrder, stopOrder, reachedRunning, stopCalls>>
    /\ UNCHANGED <<lock, pc, op, callee, lastCall, hcTask, lastHealth>>
    /\ UNCHANGED <<loaderVars, resolveVars, loadVars, hookVars>>
    /\ UNCHANGED <<botVars, callVars, factoryVars>>

\* the _cleanup hook of the service returns or raises; either way cleanup()
\* goes on with the next service
MgrCleanupDone(ok) ==
    /\ mgr = "cleaning"
    /\ UNCHANGED mgrError
    /\ CleanupAt(NextAfterRaise(cursor, ~ ok, Len(services)),
                 Len(services), services)
    /\ UNCHANGED <<plan, startOrder, stopOrder>>
    /\ UNCHANGED <<status, last_error, reachedRunning, stopCalls>>
    /\ UNCHANGED <<loaderVars, resolveVars, loadVars, hookVars, lifeVars>>
    /\ UNCHANGED <<botVars, callVars, factoryVars>>

\* ------------------------------------------------------- DiscordBot.close
\* ServiceManager.stop_all(): the teardown of every service of the manager;
\* it is cleanup()
StopAllCall == CleanupAt(1, Len(services), services)

\* close() begins: await service_manager.stop_all()
CloseBegin ==
    /\ closeState = "idle"
    /\ mgr \in {"idle", "ready", "cleaned", "raised"}
    /\ closeState' = "stop_all"
    /\ UNCHANGED mgrError
    /\ StopAllCall
    /\ UNCHANGED <<plan, startOrder, stopOrder, stopAllRaised, clientClosed>>
    /\ UNCHANGED <<status, last_error, reachedRunning, stopCalls>>
    /\ UNCHANGED <<loaderVars, resolveVars, loadVars, hookVars, lifeVars>>
    /\ UNCHANGED <<callVars, factoryVars>>

ClientClosesUnlessRaised(raised) == IF raised THEN 0 ELSE 1

\* the number of super().close() calls close() makes after its try block:
\* the call is in "finally", so one whether stop_all raised or not
ClientCloses(raised) == 1

\* the stop_all() awaited by close() returns or raises: "except Exception"
\* logs the error, "finally" awaits super().close()
CloseFinish(raised) ==
    /\ closeState = "stop_all"
    /\ mgr \in {"cleaned", "raised"}
    /\ stopAllRaised' = raised
    /\ clientClosed' = clientClosed + ClientCloses(raised)
    /\ closeState' = "closed"
    /\ UNCHANGED <<loaderVars, resolveVars, serviceVars, loadVars, hookVars>>
    /\ UNCHANGED <<lifeVars, mgrVars, callVars, factoryVars>>

NextManager ==
    \/ \E n \in 1..MaxServices : MgrInitialize(n)
    \/ \E ok \in BOOLEAN : MgrCreate(ok)
    \/ \E ok \in BOOLEAN : MgrStart(ok)
    \/ MgrCleanup
    \/ MgrStopCall
    \/ \E ok \in BOOLEAN : MgrStopDone(ok)
    \/ \E ok \in BOOLEAN : MgrCleanupDone(ok)
    \/ \E s \in Services, ok \in BOOLEAN : HealthCheckLoop(s, ok)
    \/ CloseBegin
    \/ \E raised \in BOOLEAN : CloseFinish(raised)

SpecManager == Init /\ [][NextManager]_vars

\* ------------------------------------------------ load_module, called alone
\* ModuleLoader.load_module called by concurrent callers while the manager
\* brings its services up and down.  The units the callers ask for:
LoadTargets == {UnitName[1], UnitName[2]}

\* the loader after discover_modules(): the setup signatures of the target
\* units name any of the dependencies, no unit has a provide_ function
InitLoad ==
    /\ dependencies \in Configs
    /\ \A u \in Units \ LoadTargets : dependencies[u] = {}
    /\ provides = [u \in Units |-> {}]
    /\ loaded_modules = {}
    /\ discovered = TRUE
    /\ load_order = <<>>
    /\ resolveState = "none"
    /\ resolveError = NoError
    /\ groupState = "none"
    /\ ServicesIdle
    /\ LoadIdle
    /\ HookIdle
    /\ LifeIdle
    /\ MgrIdle
    /\ BotIdle
    /\ CallIdle
    /\ FactoryIdle

\* if module_path in self.loaded_modules: return
AlreadyLoaded(u) == u \in loaded_modules

\* load_module(u) up to its await: return when already loaded, collect the
\* dependencies (no look at the status of a service it is handed), invoke
\* setup(**deps)
LoadModuleCall(c, u) ==
    /\ lm[c].pc = "idle"
    /\ IF AlreadyLoaded(u)
       THEN lm' = [lm EXCEPT ![c] = NoLoad]
       ELSE \E f \in Collected(u) :
              IF \E dep \in DepNames : f[dep].src = "KeyError"
              THEN lm' = [lm EXCEPT ![c] = NoLoad]
              ELSE lm' = [lm EXCEPT ![c] = [pc |-> "setup", unit |-> u, deps |-> f]]
    /\ UNCHANGED <<setupsDone, loaderVars, resolveVars, serviceVars, loadVars>>
    /\ UNCHANGED <<hookVars, lifeVars, mgrVars, botVars, factoryVars>>

\* await setup(**deps) returns: self.loaded_modules.add(module_path)
LoadModuleReturn(c) ==
    /\ lm[c].pc = "setup"
    /\ loaded_modules' = loaded_modules \cup {lm[c].unit}
    /\ setupsDone' = [setupsDone EXCEPT ![lm[c].unit] = @ + 1]
    /\ lm' = [lm EXCEPT ![c] = NoLoad]
    /\ UNCHANGED <<dependencies, provides, discovered>>
    /\ UNCHANGED <<resolveVars, serviceVars, loadVars>>
    /\ UNCHANGED <<hookVars, lifeVars, mgrVars, botVars, factoryVars>>

\* await setup(**deps) raises: logged and re-raised, nothing recorded
LoadModuleRaise(c) ==
    /\ lm[c].pc = "setup"
    /\ lm' = [lm EXCEPT ![c] = NoLoad]
    /\ UNCHANGED <<setupsDone, loaderVars, resolveVars, serviceVars, loadVars>>
    /\ UNCHANGED <<hookVars, lifeVars, mgrVars, botVars, factoryVars>>

NextLoad ==
    \/ \E c \in Callers, u \in LoadTargets : LoadModuleCall(c, u)
    \/ \E c \in Callers : LoadModuleReturn(c)
    \/ \E c \in Callers : LoadModuleRaise(c)
    \/ \E n \in 1..MaxServices : MgrInitialize(n)
    \/ \E ok \in BOOLEAN : MgrCreate(ok)
    \/ \E ok \in BOOLEAN : MgrStart(ok)
    \/ MgrCleanup
    \/ MgrStopCall
    \/ \E ok \in BOOLEAN : MgrStopDone(ok)
    \/ \E ok \in BOOLEAN : MgrCleanupDone(ok)

SpecLoad == InitLoad /\ [][NextLoad]_vars

\* -------------------------------------------- ServiceFactory.create_services
\* the services argument: any non-empty list of distinct service names
FactoryPlans == UNION {Perms(S) : S \in SUBSET Services \ {{}}}

\* create_services(services) begins: created_services = {}
CreateServicesCall(names) ==
    /\ fstate = "idle"
    /\ fplan' = names
    /\ fcursor' = 1
    /\ fstate' = "creating"
    /\ UNCHANGED <<created, cleanedUp, fError>>
    /\ UNCHANGED <<loaderVars, resolveVars, serviceVars, loadVars, hookVars>>
    /\ UNCHANGED <<lifeVars, mgrVars, botVars, callVars>>

\* service = await cls.create_service(name): the creator constructs and
\* initializes the service.  When it raises, the handler starts to clean up
\* the services created so far, in the order of their creation.
FactoryCreate(ok) ==
    /\ fstate = "creating"
    /\ LET s == fplan[fcursor]
       IN  /\ status' = [status EXCEPT ![s] = AfterInitialize(status[s], ok)]
           /\ last_error' = IF ok THEN last_error
                            ELSE [last_error EXCEPT ![s] = HookError(s)]
           /\ IF ok
              THEN /\ created' = Append(created, s)
                   /\ fstate' = IF fcursor = Len(fplan) THEN "returned" ELSE "creating"
                   /\ fcursor' = IF fcursor = Len(fplan) THEN 0 ELSE fcursor + 1
                   /\ UNCHANGED fError
              ELSE /\ fError' = ServiceErrorOf(HookError(s))
                   /\ fstate' = IF created = <<>> THEN "raised" ELSE "cleaning"
                   /\ fcursor' = IF created = <<>> THEN 0 ELSE 1
                   /\ UNCHANGED created
    /\ UNCHANGED <<fplan, cleanedUp>>
    /\ UNCHANGED <<services, initialized, reachedRunning, stopCalls>>
    /\ UNCHANGED <<loaderVars, resolveVars, loadVars, hookVars>>
    /\ UNCHANGED <<lifeVars, mgrVars, botVars, callVars>>

\* await created_service.cleanup() inside the handler: stop() is a no-op on
\* a service that was never started, then the _cleanup hook returns or
\* raises.  Nothing catches what it raises: the error leaves
\* create_services in place of the ServiceError, the loop is abandoned.
FactoryCleanup(ok) ==
    /\ fstate = "cleaning"
    /\ LET s == created[fcursor]
       IN  /\ cleanedUp' = cleanedUp \cup {s}
           /\ IF ok
              THEN /\ fstate' = IF fcursor = Len(created) THEN "raised" ELSE "cleaning"
                   /\ fcursor' = IF fcursor = Len(created) THEN 0 ELSE fcursor + 1
                   /\ UNCHANGED fError
              ELSE /\ fstate' = "raised"
                   /\ fcursor' = 0
                   /\ fError' = HookError(s)
    /\ UNCHANGED <<fplan, created>>
    /\ UNCHANGED <<loaderVars, resolveVars, serviceVars, loadVars, hookVars>>
    /\ UNCHANGED <<lifeVars, mgrVars, botVars, callVars>>

NextFactory ==
    \/ \E names \in FactoryPlans : CreateServicesCall(names)
    \/ \E ok \in BOOLEAN : FactoryCreate(ok)
    \/ \E ok \in BOOLEAN : FactoryCleanup(ok)

SpecFactory == Init /\ [][NextFactory]_vars

\* ===================================================== claim vocabulary
\* unit m declares a dependency that sibling unit p provides
DependsOn(m, p) == \E dep \in dependencies[m] : dep \in provides[p]

ProvidersOf(m) == {p \in Units : DependsOn(m, p)}

RECURSIVE ProviderClosure(_)
ProviderClosure(S) ==
    LET n == S \cup UNION {ProvidersOf(m) : m \in S}
    IN  IF n = S THEN S ELSE ProviderClosure(n)

\* every unit m depends on directly or through other units
TransitiveProviders(m) == ProviderClosure(ProvidersOf(m))

OnCycle(u) == u \in TransitiveProviders(u)

Acyclic == \A u \in Units : ~ OnCycle(u)

\* position of unit u in the resolved order (0 when absent)
PosIn(order, u) ==
    IF \E i \in 1..Len(order) : order[i] = u
    THEN CHOOSE i \in 1..Len(order) : order[i] = u
    ELSE 0

\* index of the group that holds unit u (0 when in none)
LevelOf(u) ==
    IF \E i \in 1..Len(dependency_groups) : u \in dependency_groups[i]
    THEN CHOOSE i \in 1..Len(dependency_groups) : u \in dependency_groups[i]
    ELSE 0

\* length in edges of the longest dependency path ending at u (acyclic graphs)
RECURSIVE LongestPathTo(_)
LongestPathTo(u) ==
    IF ProvidersOf(u) = {} THEN 0
    ELSE 1 + Max({LongestPathTo(p) : p \in ProvidersOf(u)})

\* ------------------------------------------------------------------- C2
\* C2: for every acyclic dependency graph _resolve_load_order returns an
\* order (it does not raise) in which every provider unit appears before
\* each unit that depends on it.
C2_ProvidersFirst ==
    (resolveState # "none" /\ Acyclic) =>
        /\ resolveState = "ok"
        /\ \A m, p \in Units :
              DependsOn(m, p) =>
                  /\ PosIn(load_order, p) > 0
                  /\ PosIn(load_order, p) < PosIn(load_order, m)

\* a resolved order over a chain p -> m -> n of three units
C2_Witness ==
    /\ resolveState = "ok"
    /\ \E p, m, n \in Units :
          /\ p # m /\ m # n /\ p # n
          /\ DependsOn(m, p) /\ DependsOn(n, m)

C4_LevelsRespectEdges ==
    (groupState = "ok" /\ Acyclic) =>
        \A m, p \in Units :
            DependsOn(m, p) =>
                /\ LevelOf(p) > 0
                /\ LevelOf(p) < LevelOf(m)

\* ------------------------------------------------------------------- C5
\* C5: the level index _group_by_dependency_level gives a unit equals the
\* length in edges of the longest dependency path ending at that unit.
C5_LevelIsLongestPath ==
    (groupState = "ok" /\ Acyclic) =>
        \A u \in Units : LevelOf(u) = LongestPathTo(u) + 1

\* ---------------------------------------------------- load_all vocabulary
\* the setup function of unit u has been invoked
SetupInvoked(u) ==
    \/ task[u] \in {"setup", "done"}
    \/ task[u] = "failed" /\ taskError[u].kind = "SetupError"

\* unit u declares dep, and dep has neither a sibling provider nor a
\* registered service
Missing(u, dep) ==
    /\ dep \in dependencies[u]
    /\ ~ \E p \in Units : dep \in provides[p]
    /\ ~ \E i \in 1..Len(services) : services[i] = dep

\* ------------------------------------------------------------------- C1
\* C1: during load_all, for every unit c that declares a dependency provided
\* by a sibling unit p, c's setup is not invoked before p's setup returned
\* successfully.
C1_ProviderSetupFirst ==
    \A c, p \in Units :
        (DependsOn(c, p) /\ SetupInvoked(c)) => task[p] = "done"

\* ------------------------------------------------------------------- C6
\* C6: if any discovered unit declares a dependency that has neither a
\* sibling provider nor a registered service, load_all fails before the
\* setup of any unit has been invoked.
C6_MissingFailsBeforeSetup ==
    (\E u \in Units, dep \in DepNames : Missing(u, dep)) =>
        /\ la \in {"idle", "raised"}
        /\ \A v \in Units : ~ SetupInvoked(v)

\* ------------------------------------------------------------------- C7
\* C7: load_module(x) for a unit x that declares a dependency with no
\* sibling provider and no registered service raises an error that names the
\* dependency and never invokes x's setup.
C7_MissingRaises ==
    \A x \in Units, dep \in DepNames :
        (Missing(x, dep) /\ task[x] \notin {"none", "pending"}) =>
            /\ task[x] = "failed"
            /\ ~ SetupInvoked(x)
            /\ dep \in taskError[x].names

C9_FailFast ==
    (\E u \in Units : task[u] = "failed") =>
        /\ la \in {"running", "raised"}
        /\ la = "raised" => laError = firstError /\ laError # NoError
        /\ \A v \in Units : LevelOf(v) > group => ~ SetupInvoked(v)
        /\ hook # "done"
        /\ hook = "raised" => hookError = laError

\* a setup failed, load_all raised it and setup_hook raised it to its caller
C9_Witness ==
    /\ \E u \in Units : task[u] = "failed" /\ laError = SetupError(u)
    /\ la = "raised"
    /\ hook = "raised"

\* ------------------------------------------------------------------ C10
\* C10: whenever setup_hook fails, stop has been attempted on every service
\* that had reached RUNNING before the error reaches the caller, and that
\* error is the original one (as raised, or as the cause a ServiceError
\* carries).
C10_StopAllBeforeRaise ==
    hook = "raised" =>
        /\ \A s \in reachedRunning : s \in stopCalls
        /\ hookError \in {firstError, ServiceErrorOf(firstError)}

\* ------------------------------------------------------------------ C11
\* C11: when one unit's setup fails within a group, the sibling tasks that
\* are in flight are not cancelled: no step (in particular not the one in
\* which load_all raises) takes a task out of its setup other than the
\* setup's own return or raise.
C11_SiblingsNotCancelled ==
    [][\A u \in Units :
          task[u] = "setup" =>
              /\ task'[u] \in {"setup", "done", "failed"}
              /\ (la = "running" /\ la' = "raised") => task'[u] = "setup"]_vars

\* load_all has raised a sibling's failure while another setup is in flight
C11_Witness ==
    /\ la = "raised"
    /\ \E u, v \in Units :
          /\ u # v
          /\ task[u] = "failed" /\ laError = SetupError(u)
          /\ task[v] = "setup"

\* ------------------------------------------------- lifecycle claim vocabulary
\* caller c takes the lock in this step: it runs from "async with
\* self._lock" to its return, raise or first await
Enters(c) ==
    /\ pc[c] = "waiting" /\ pc'[c] # "waiting"
    /\ lastCall'.result # Cancelled

\* the hook awaited by caller c returns or raises in this step
HookEnds(c) ==
    /\ pc[c] = "hook" /\ pc'[c] # "hook"
    /\ lastCall'.result # Cancelled

LegalTransitions ==
    { <<"UNINITIALIZED", "INITIALIZING">>,
      <<"INITIALIZING", "INITIALIZED">>, <<"INITIALIZING", "ERROR">>,
      <<"INITIALIZED", "STARTING">>,
      <<"STARTING", "RUNNING">>, <<"STARTING", "ERROR">>,
      <<"RUNNING", "STOPPING">>,
      <<"STOPPING", "STOPPED">>, <<"STOPPING", "ERROR">> }

\* C12: over every interleaving of initialize, start, stop, cleanup and
\* health_check calls, each change of a service's status is one of the nine
\* transitions of the lifecycle.
C12_LegalTransitions ==
    [][\A s \in Services :
          status'[s] # status[s] => <<status[s], status'[s]>> \in LegalTransitions]_vars

\* one service went through the whole lifecycle and its _stop hook raised,
\* while another stopped cleanly
C12_Witness ==
    \E s, t \in Services :
        /\ s # t
        /\ status[s] = "ERROR" /\ s \in reachedRunning /\ hcTask[s] = "cancelled"
        /\ status[t] = "STOPPED"

\* C13: when the hook of initialize, start or stop ends, either it returned
\* (final status, nothing raised, last error untouched) or it raised: then
\* the status is ERROR, the hook's error is the last error and that same
\* error is raised to the caller.
C13_HookErrorRaised ==
    [][\A c \in Callers :
          (HookEnds(c) /\ op[c] \in {"initialize", "start", "stop"}) =>
              LET s == callee[c]
              IN  \/ /\ status'[s] \in {"INITIALIZED", "RUNNING", "STOPPED"}
                     /\ lastCall' = [op |-> op[c], service |-> s, result |-> NoError]
                     /\ last_error'[s] = last_error[s]
                  \/ /\ status'[s] = "ERROR"
                     /\ last_error'[s] = HookError(s)
                     /\ lastCall' = [op |-> op[c], service |-> s,
                                     result |-> HookError(s)]]_vars

\* a stop() whose _stop hook raised has just ended
C13_Witness ==
    \E s \in Services :
        /\ lastCall = [op |-> "stop", service |-> s, result |-> HookError(s)]
        /\ status[s] = "ERROR"
        /\ last_error[s] = HookError(s)

\* C14 as stated: start() on a service that is not INITIALIZED returns, raises
\* nothing, leaves the status and does not invoke the _start hook.
C14_Original ==
    [][\A c \in Callers :
          (Enters(c) /\ op[c] = "start" /\ status[callee[c]] # "INITIALIZED") =>
              /\ pc'[c] = "idle"
              /\ lastCall' = [op |-> "start", service |-> callee[c],
                              result |-> NoError]
              /\ status' = status]_vars

\* C14: start() on a service that is not INITIALIZED raises RuntimeError at
\* once; it leaves the status, the last error, the start time and the
\* health-check task as they were and does not invoke the _start hook.
C14_StartOutsideInitializedRaises ==
    [][\A c \in Callers :
          (Enters(c) /\ op[c] = "start" /\ status[callee[c]] # "INITIALIZED") =>
              /\ pc'[c] = "idle"
              /\ lastCall' = [op |-> "start", service |-> callee[c],
                              result |-> NotInitializedError(callee[c])]
              /\ status' = status
              /\ last_error' = last_error
              /\ start_time' = start_time
              /\ hcTask' = hcTask]_vars

\* start() was called on a RUNNING service and has raised
C14_Witness ==
    \E s \in Services :
        /\ lastCall = [op |-> "start", service |-> s,
                       result |-> NotInitializedError(s)]
        /\ status[s] = "RUNNING"

\* C15: initialize() on a service that is not UNINITIALIZED returns without
\* raising, leaves the status and does not invoke the _initialize hook.
C15_InitializeNoOp ==
    [][\A c \in Callers :
          (Enters(c) /\ op[c] = "initialize"
                     /\ status[callee[c]] # "UNINITIALIZED") =>
              /\ pc'[c] = "idle"
              /\ lastCall' = [op |-> "initialize", service |-> callee[c],
                              result |-> NoError]
              /\ status' = status
              /\ last_error' = last_error]_vars

\* initialize() was called on a service that start() had already brought
\* to RUNNING, and has returned
C15_Witness ==
    \E s \in Services :
        /\ lastCall = [op |-> "initialize", service |-> s, result |-> NoError]
        /\ status[s] = "RUNNING"
        /\ \A c \in Callers : pc[c] = "idle"

\* C16: stop() on a service that is not RUNNING returns without raising; the
\* status, the last error and the start time are unchanged and the _stop
\* hook is not invoked.
C16_StopNoOp ==
    [][\A c \in Callers :
          (Enters(c) /\ op[c] = "stop" /\ status[callee[c]] # "RUNNING") =>
              /\ pc'[c] = "idle"
              /\ lastCall' = [op |-> "stop", service |-> callee[c],
                              result |-> NoError]
              /\ status' = status
              /\ last_error' = last_error
              /\ start_time' = start_time
              /\ hcTask' = hcTask]_vars

\* stop() was called on a service that failed to start and has returned
C16_Witness ==
    \E s \in Services :
        /\ lastCall = [op |-> "stop", service |-> s, result |-> NoError]
        /\ status[s] = "ERROR"
        /\ s \notin reachedRunning
        /\ last_error[s] = HookError(s)

\* C17: a service has a live health-check task exactly when its status is
\* RUNNING.
C17_LiveLoopIffRunning ==
    \A s \in Services : (hcTask[s] = "live") <=> (status[s] = "RUNNING")

\* the _stop hook of a service that was RUNNING raised: its loop was
\* cancelled before the hook ran and stays cancelled
C17_Witness ==
    \E s \in Services :
        /\ status[s] = "ERROR"
        /\ s \in reachedRunning
        /\ hcTask[s] = "cancelled"
        /\ start_time[s]

\* C18: an iteration of the health-check loop whose check raises leaves the
\* status RUNNING, leaves the last error, and leaves the loop alive.
C18_FailingCheckChangesNothing ==
    [][\A s \in Services :
          (hcTask[s] = "live" /\ lastHealth'[s] = "failed"
                              /\ lastHealth[s] # "failed") =>
              /\ status[s] = "RUNNING" /\ status' = status
              /\ last_error' = last_error
              /\ hcTask'[s] = "live"]_vars

\* a check failed in the loop of a RUNNING service whose last error is unset
C18_Witness ==
    \E s \in Services :
        /\ lastHealth[s] = "failed"
        /\ status[s] = "RUNNING"
        /\ hcTask[s] = "live"
        /\ last_error[s] = NoError

\* --------------------------------------------------- teardown claim vocabulary
\* cleanup() returned (or initialize() raised after its cleanup())
CleanupOver == mgr \in {"cleaned", "raised"}

\* the stop() invocations, in order, on services that had reached RUNNING
StoppedRunning ==
    LET wasRunning(s) == s \in Range(startOrder)
    IN  SelectSeq(stopOrder, wasRunning)

IsPrefix(a, b) ==
    /\ Len(a) <= Len(b)
    /\ \A i \in 1..Len(a) : a[i] = b[i]

\* C19: cleanup() stops the services in exactly the reverse of the order in
\* which they reached RUNNING: at every moment the stops made so far are the
\* beginning of that reversed order, and when cleanup() is over they are all
\* of it.
C19_ReverseStartOrder ==
    /\ IsPrefix(StoppedRunning, Reversed(startOrder))
    /\ CleanupOver => StoppedRunning = Reversed(startOrder)

\* three services reached RUNNING one after the other and were torn down
C19_Witness ==
    /\ mgr = "cleaned"
    /\ Len(startOrder) >= 3
    /\ startOrder[1] # startOrder[3]
    /\ stopOrder = Reversed(startOrder)

\* C20: a raise while one service is stopped does not end cleanup(): the
\* table is cleared only after stop() was invoked on every service in it,
\* and cleanup() itself raises nothing (the manager's error, if any, is the
\* one initialize() already had).
C20_StopRaiseDoesNotBlock ==
    [][/\ (mgr \in {"cleanup", "stopping", "cleaning"} /\ CleanupOver') =>
              \A s \in Range(services) : s \in Range(stopOrder')
       /\ (mgr \in {"cleanup", "stopping", "cleaning"}) =>
              /\ mgrError' = mgrError
              /\ mgr' \in {"cleanup", "stopping", "cleaning", "cleaned", "raised"}
              /\ (mgr' = "cleaned") = (CleanupOver' /\ mgrError = NoError)]_vars

\* the _stop hook of one service raised during shutdown, a service after it
\* in the teardown order was stopped all the same, and cleanup() returned
C20_Witness ==
    /\ mgr = "cleaned"
    /\ \E i, j \in 1..Len(stopOrder) :
          /\ i < j
          /\ status[stopOrder[i]] = "ERROR"
          /\ stopOrder[i] \in reachedRunning
          /\ status[stopOrder[j]] = "STOPPED"

\* C21: lifecycle calls on one service exclude each other: a call takes the
\* lock only when no other call holds it, so two calls are never inside the
\* lock of the same service; the _initialize hook is entered only from
\* UNINITIALIZED, a status that is never set again, hence at most once per
\* service; and a call waiting for a free lock can always go on, whatever
\* calls hold the locks of other services.
C21_MutualExclusion ==
    [][/\ \A c \in Callers :
             Enters(c) =>
                 /\ lock[callee[c]] = "free"
                 /\ \A d \in Callers \ {c} :
                        ~ (pc[d] = "hook" /\ callee[d] = callee[c])
       /\ \A c, d \in Callers :
             (c # d /\ pc'[c] = "hook" /\ pc'[d] = "hook") => callee'[c] # callee'[d]
       /\ \A c \in Callers :
             (Enters(c) /\ op[c] = "initialize" /\ pc'[c] = "hook") =>
                 status[callee[c]] = "UNINITIALIZED"
       /\ \A s \in Services :
             status[s] # "UNINITIALIZED" => status'[s] # "UNINITIALIZED"
       /\ \A c \in Callers :
             (pc[c] = "waiting" /\ lock[callee[c]] = "free") => ENABLED Acquire(c)]_vars

\* two concurrent initialize calls on one service: one is inside the lock
\* awaiting _initialize, the other waits for the lock
C21_Witness ==
    \E c, d \in Callers :
        /\ c # d
        /\ callee[c] = callee[d]
        /\ op[c] = "initialize" /\ pc[c] = "hook"
        /\ op[d] = "initialize" /\ pc[d] = "waiting"

\* C27: ERROR and STOPPED are terminal: once a service has one of them, no
\* step changes its status, and no call on it is inside the lock awaiting
\* the _initialize, _start or _stop hook.
C27_ErrorAndStoppedTerminal ==
    [][\A s \in Services :
          status[s] \in {"ERROR", "STOPPED"} =>
              /\ status'[s] = status[s]
              /\ \A c \in Callers : ~ (pc'[c] = "hook" /\ callee'[c] = s)]_vars

\* a restart was tried on a STOPPED service: start() raised and the service
\* is still STOPPED
C27_Witness ==
    \E s \in Services :
        /\ status[s] = "STOPPED"
        /\ lastCall = [op |-> "start", service |-> s,
                       result |-> NotInitializedError(s)]

StableStatuses == {"UNINITIALIZED", "INITIALIZED", "RUNNING", "STOPPED", "ERROR"}

\* C28: whenever the lock of a service is free, its status is one of
\* UNINITIALIZED, INITIALIZED, RUNNING, STOPPED, ERROR: no call that returned,
\* raised or was cancelled left it INITIALIZING, STARTING or STOPPING.
C28_NoIntermediateWhenLockFree ==
    \A s \in Services : lock[s] = "free" => status[s] \in StableStatuses

\* C24: close() invokes the close of the underlying client exactly once,
\* whether stop_all returned or raised: never before close() is over, and
\* once when it is.
C24_ClientClosedOnce ==
    /\ closeState = "closed" => clientClosed = 1
    /\ closeState # "closed" => clientClosed = 0

\* close() is over after a teardown in which the _stop hook of a RUNNING
\* service raised and stop_all raised into close()
C24_Witness ==
    /\ closeState = "closed"
    /\ stopAllRaised
    /\ clientClosed = 1
    /\ \E s \in Services : s \in reachedRunning /\ status[s] = "ERROR"

\* C25: when creating or starting a service fails inside initialize(), the
\* failing step goes into cleanup(); the table is cleared only after cleanup
\* was invoked on every service registered so far; and when initialize()
\* raises, the table is empty, _initialized is False and the error is a
\* ServiceError.
C25_InitializeFailureCleansUp ==
    [][/\ (mgr \in {"creating", "starting"} /\ mgrError' # NoError) =>
              /\ mgr' \in {"cleanup", "raised"}
              /\ mgr' = "raised" => services = <<>>
       /\ (mgrError # NoError /\ mgr # "raised" /\ mgr' = "raised") =>
              \A s \in Range(services) : s \in Range(stopOrder')
       /\ mgr' = "raised" =>
              /\ services' = <<>>
              /\ ~ initialized'
              /\ mgrError'.kind = "ServiceError"]_vars

\* the start of a later service failed after an earlier one had reached
\* RUNNING: the earlier one was stopped, and initialize() raised
C25_Witness ==
    /\ mgr = "raised"
    /\ services = <<>>
    /\ \E s, t \in Services :
          /\ status[s] = "ERROR" /\ s \notin reachedRunning
          /\ t \in reachedRunning /\ status[t] = "STOPPED"
          /\ mgrError = ServiceErrorOf(HookError(s))

\* C22: the service lookup by name never hands back an empty value: no unit
\* was given None for a dependency that no service is registered under (the
\* lookup fails with a not-found error instead).
C22_LookupNeverNull ==
    \A u \in Units, dep \in DepNames : injected[u][dep].src # "None"

\* C23: a dependency that load_module resolves through the service lookup is
\* RUNNING at the moment setup is invoked with it: a call that enters setup
\* was handed no registered service in any other status.
C23_InjectedServiceRunning ==
    [][\A c \in Callers :
          (lm[c].pc = "idle" /\ lm'[c].pc = "setup") =>
             \A dep \in DepNames :
                lm'[c].deps[dep].src = "service" =>
                    status[lm'[c].deps[dep].of] = "RUNNING"]_vars

\* C29: a unit is in loaded_modules only after a setup of it returned, and
\* over any interleaving of load calls the setup of a unit returns
\* successfully at most once.
C29_SetupAtMostOnce ==
    \A u \in Units :
        /\ u \in loaded_modules => setupsDone[u] >= 1
        /\ setupsDone[u] <= 1

\* C26: when create_services fails because the creation of one service
\* failed, cleanup was invoked on every service created earlier in the call
\* (also when one of those cleanups raised) and the error of the call is a
\* ServiceError that names the service whose creation failed.
C26_FailureCleansEarlier ==
    fstate = "raised" =>
        /\ Range(created) \subseteq cleanedUp
        /\ fError = ServiceErrorOf(HookError(fplan[Len(created) + 1]))

\* ------------------------------------------------------------------ C30
\* the number of levels of dependency_groups that hold unit u
LevelsHolding(u) ==
    Cardinality({k \in 1..Len(dependency_groups) : u \in dependency_groups[k]})

\* load_all got past its resolution: the discovered graph is acyclic
Resolved30 == la \in {"running", "returned"} \/ (la = "raised" /\ laError # CircularError)

\* C30: for an acyclic set of discovered units every order _resolve_load_order
\* may return lists each unit exactly once, _group_by_dependency_level puts
\* each unit in exactly one level, and so load_all has attempted the setup of
\* every unit when it ends, and the setup of no unit returned twice.
C30_EveryUnitExactlyOnce ==
    /\ Resolved30 =>
          /\ \A order \in ResolveLoadOrder(dependencies, provides) :
                /\ Len(order) = Cardinality(Units)
                /\ Range(order) = Units
          /\ \A u \in Units : LevelsHolding(u) = 1
    /\ (Resolved30 /\ la # "running") => \A u \in Units : SetupInvoked(u)
    /\ \A u \in Units :
          /\ setupsDone[u] <= 1
          /\ task[u] = "done" => setupsDone[u] = 1

\* load_all returned for units with a dependency between two of them, each
\* set up once
C30_Witness ==
    /\ la = "returned"
    /\ \E c, p \in Units : c # p /\ DependsOn(c, p)
    /\ \A u \in Units : setupsDone[u] = 1

====
